---- MODULE Spec2Model ----
(***************************************************************************)
(* A model of makei's build session (src/makei/build.py, class BuildEnv):  *)
(* construction (temporary variable file, project descriptor, directory   *)
(* discovery, override cascade, variable file writer, rule scanner), the   *)
(* build invoker, the event log normaliser and the finaliser.              *)
(*                                                                         *)
(* Paths are sequences of segments (Path(".") is <<>>); text is a sequence *)
(* of one-character strings.  Python tuples are 0-based, TLA+ tuples are   *)
(* 1-based: dir_var_map[d][0] is dir_var_map[d][1] here.                   *)
(***************************************************************************)
EXTENDS Integers, Sequences, FiniteSets, TLC

VARIABLES
    pc,              \* position of the session in __init__ / make / __del__
    err,             \* the exception that ended the session, or "none"
    src_dir,         \* Path.cwd()
    fs_rules,        \* file system: the Rules.mk of every directory
    fs_ibmi,         \* file system: the .ibmi.json of every directory
    logs,            \* file system: the files present under .logs
    evfevent,        \* file system: .evfevent/*.evfevent, name -> content
    engine_out,      \* the event files the external make engine will emit
    tmp_exists,      \* file system: the mkstemp file exists
    var_file,        \* file system: content of the mkstemp file (lines)
    build_vars_path, \* self.build_vars_path ("unset" until line 45)
    iproj_json,      \* self.iproj_json
    ibmi_env_cmds,   \* self.ibmi_env_cmds
    color,           \* self.color
    rules_mks,       \* directories of the Rules.mk files, in rglob order
    subdirs,         \* rules_mks sorted by depth
    dir_var_map,     \* directory -> <<objlib, tgtCcsid>>
    idx,             \* position of the running loop
    make_invoked,    \* run_command has been called
    make_status,     \* how the external process ended
    normalized       \* _post_make has run

vars == <<pc, err, src_dir, fs_rules, fs_ibmi, logs, evfevent, engine_out,
          tmp_exists, var_file, build_vars_path, iproj_json, ibmi_env_cmds,
          color, rules_mks, subdirs, dir_var_map, idx, make_invoked,
          make_status, normalized>>

----------------------------------------------------------------------------
(* Bounds of the model *)

MaxUnits == 2        \* Rules.mk files in a source tree
MaxLineLen == 3      \* characters of a scanned Rules.mk line
MaxContentLen == 6   \* characters of an event file

DirNames == {"a", "b"}
Root == <<>>
Dirs == {Root} \cup {<<x>> : x \in DirNames} \cup {<<x, y>> : x, y \in DirNames}

NoValue == "<none>"

----------------------------------------------------------------------------
(* pathlib *)

Parent(path) == IF path = Root THEN Root ELSE SubSeq(path, 1, Len(path) - 1)

Depth(path) == Len(path)

Absolute(path) == src_dir \o path

RECURSIVE PathStr(_)
PathStr(path) ==
    IF path = <<>> THEN <<"/">>
    ELSE IF Len(path) = 1 THEN <<"/", path[1]>>
    ELSE PathStr(SubSeq(path, 1, Len(path) - 1)) \o <<"/", path[Len(path)]>>

----------------------------------------------------------------------------
(* str *)

Whitespace == {" ", "\t", "\n"}

RECURSIVE rstrip(_)
rstrip(line) ==
    IF line = <<>> THEN <<>>
    ELSE IF line[Len(line)] \in Whitespace
         THEN rstrip(SubSeq(line, 1, Len(line) - 1))
         ELSE line

startswith(line, chars) == line # <<>> /\ line[1] \in chars

contains(line, ch) == \E i \in 1..Len(line) : line[i] = ch

RECURSIVE split0(_, _)
split0(line, sep) ==
    IF line = <<>> THEN <<>>
    ELSE IF line[1] = sep THEN <<>>
    ELSE <<line[1]>> \o split0(Tail(line), sep)

RECURSIVE str_replace(_, _)
str_replace(text, old) ==
    IF Len(text) < Len(old) THEN text
    ELSE IF SubSeq(text, 1, Len(old)) = old
         THEN str_replace(SubSeq(text, Len(old) + 1, Len(text)), old)
         ELSE <<text[1]>> \o str_replace(Tail(text), old)

----------------------------------------------------------------------------
(* The collaborators of makei.utils, as the specification describes them *)

\* read_ibmi_json(path / ".ibmi.json", parent): the override file's objlib and
\* tgtCcsid, each falling back on the parent's resolved value; the parent's
\* entry verbatim when the file is absent.  A malformed file is an error,
\* raised by the caller below.
read_ibmi_json(override, parent_vars) ==
    IF override.kind = "absent" THEN parent_vars
    ELSE << IF override.objlib = NoValue THEN parent_vars[1] ELSE override.objlib,
            IF override.tgtCcsid = NoValue THEN parent_vars[2] ELSE override.tgtCcsid >>

\* objlib_to_path(objlib): the file system form of an object library token.
objlib_to_path(objlib) == <<"/QSYS.LIB/", objlib, ".LIB">>

\* read_iproj_json(path): the keys a project descriptor can hold.
RequiredKeys == {"objlib", "tgtCcsid", "curlib", "preUsrlibl", "postUsrlibl",
                 "includePath"}

IprojValue(key) ==
    CASE key = "objlib" -> "LIBA"
      [] key = "tgtCcsid" -> "37"
      [] key = "curlib" -> "CURL"
      [] key = "preUsrlibl" -> "PRE1 PRE2"
      [] key = "postUsrlibl" -> "POST1"
      [] key = "includePath" -> "inc"
      [] key = "setIBMiEnvCmd" -> <<"cmd1", "cmd2">>

\* The descriptors read_iproj_json can return: complete, with the optional
\* setIBMiEnvCmd, or lacking one of the keys _create_build_vars reads.
IprojVariants ==
    {RequiredKeys, RequiredKeys \cup {"setIBMiEnvCmd"}}
    \cup {RequiredKeys \ {k} : k \in {"objlib", "tgtCcsid", "curlib"}}

\* "\\n".join(cmd_list)
RECURSIVE join(_, _)
join(sep, list) ==
    IF list = <<>> THEN <<>>
    ELSE IF Len(list) = 1 THEN <<list[1]>>
    ELSE <<list[1], sep>> \o join(sep, Tail(list))

----------------------------------------------------------------------------
(* Inputs: the source trees, override files, rule files and event files *)

EmptyMap == [k \in {} |-> NoValue]

Absent == [kind |-> "absent", objlib |-> NoValue, tgtCcsid |-> NoValue]

OverrideChoices ==
    { Absent,
      [kind |-> "file", objlib |-> NoValue, tgtCcsid |-> "1208"],
      [kind |-> "file", objlib |-> "LIBB", tgtCcsid |-> NoValue],
      [kind |-> "malformed", objlib |-> NoValue, tgtCcsid |-> NoValue] }

NoRules == [kind |-> "absent", lines |-> <<>>]
Unreadable == [kind |-> "unreadable", lines |-> <<>>]
RulesFile(lines) == [kind |-> "file", lines |-> lines]

\* FOO: bar.c / an indented recipe line / # comment / VAR = value
ExampleRules ==
    RulesFile(<< <<"F", "O", "O", ":", " ", "b">>,
                 <<" ", " ", "r">>,
                 <<"#", " ", "c">>,
                 <<"V", " ", "=", " ", "v">> >>)

\* BAR and FOO, BAR declared twice
TwiceRules ==
    RulesFile(<< <<"B", "A", "R", ":">>,
                 <<"F", "O", "O", ":", " ", "x">>,
                 <<"\t", "r">>,
                 <<"B", "A", "R", ":", " ", "y">> >>)

RuleFileChoices == {ExampleRules, TwiceRules, Unreadable}

ScanChars == {"F", ":", " ", "\t", "#", "="}

Texts(chars, n) == UNION {[1..k -> chars] : k \in 0..n}

EvfChars == {"/", "r", "x"}

LogFiles == {"joblog.json", "output.log"}

SampleEngineOut ==
    [f \in {"a.evfevent", "b.evfevent"} |->
        IF f = "a.evfevent" THEN <<"/", "r", "/", "a", "/", "x">> ELSE <<"x">>]

UnitSets == {U \in SUBSET Dirs : Cardinality(U) <= MaxUnits}

Units == {d \in Dirs : fs_rules[d].kind # "absent"}

Perms(S) ==
    {f \in [1..Cardinality(S) -> S] : \A i, j \in DOMAIN f : i # j => f[i] # f[j]}

----------------------------------------------------------------------------
(* Initial states: a file system and a session not yet constructed *)

NewSession ==
    /\ pc = "new"
    /\ err = "none"
    /\ evfevent = EmptyMap
    /\ tmp_exists = FALSE
    /\ var_file = <<>>
    /\ build_vars_path = "unset"
    /\ iproj_json = EmptyMap
    /\ ibmi_env_cmds = <<>>
    /\ color = FALSE
    /\ rules_mks = <<>>
    /\ subdirs = <<>>
    /\ dir_var_map = EmptyMap
    /\ idx = 0
    /\ make_invoked = FALSE
    /\ make_status = "none"
    /\ normalized = FALSE

\* Source trees with every combination of override files.
InitCascade ==
    /\ NewSession
    /\ src_dir = <<"r">>
    /\ logs \in {{}, LogFiles}
    /\ engine_out = SampleEngineOut
    /\ \E U \in UnitSets :
          /\ fs_rules = [d \in Dirs |-> IF d \in U THEN ExampleRules ELSE NoRules]
          /\ fs_ibmi \in {f \in [Dirs -> OverrideChoices] :
                            \A d \in Dirs : d \notin U \ {Root} => f[d] = Absent}

\* Source trees with every combination of rule files.
InitOwnership ==
    /\ NewSession
    /\ src_dir = <<"r">>
    /\ logs = {}
    /\ engine_out = SampleEngineOut
    /\ fs_ibmi = [d \in Dirs |-> Absent]
    /\ \E U \in UnitSets :
          fs_rules \in {f \in [Dirs -> RuleFileChoices \cup {NoRules}] :
                          \A d \in Dirs : f[d] # NoRules <=> d \in U}

Init == InitCascade \/ InitOwnership

\* One rule file holding one line, every line of up to MaxLineLen characters,
\* or the four-line example.
InitScan ==
    /\ NewSession
    /\ src_dir = <<"r">>
    /\ logs = {}
    /\ engine_out = SampleEngineOut
    /\ fs_ibmi = [d \in Dirs |-> Absent]
    /\ \E file \in {RulesFile(<<line>>) : line \in Texts(ScanChars, MaxLineLen)}
                     \cup {ExampleRules},
          u \in {Root, <<"a">>} :
          fs_rules = [d \in Dirs |-> IF d = u THEN file ELSE NoRules]

\* One event file, every content of up to MaxContentLen characters.
InitNorm ==
    /\ NewSession
    /\ src_dir \in {<<>>, <<"r">>}
    /\ logs = {}
    /\ fs_ibmi = [d \in Dirs |-> Absent]
    /\ fs_rules = [d \in Dirs |-> IF d = Root THEN ExampleRules ELSE NoRules]
    /\ \E text \in Texts(EvfChars, MaxContentLen) :
          engine_out = [f \in {"a.evfevent"} |-> text]

----------------------------------------------------------------------------
(* BuildEnv.__init__ *)

Raise(exception) ==
    /\ pc' = "raised"
    /\ err' = exception

\* Lines 37-46: the temporary file is created, then its path is stored.
BuildEnv_init ==
    /\ pc = "new"
    /\ \E created \in BOOLEAN :
          IF created
          THEN /\ tmp_exists' = TRUE
               /\ var_file' = <<>>
               /\ build_vars_path' = "set"
               /\ pc' = "init"
               /\ err' = err
          ELSE /\ Raise("mkstemp")
               /\ UNCHANGED <<tmp_exists, var_file, build_vars_path>>
    /\ UNCHANGED <<src_dir, fs_rules, fs_ibmi, logs, evfevent, engine_out,
                   iproj_json, ibmi_env_cmds, color, rules_mks, subdirs,
                   dir_var_map, idx, make_invoked, make_status, normalized>>

\* Lines 47-54: the project descriptor, the colour probe, the environment
\* commands.
ReadIprojJson ==
    /\ pc = "init"
    /\ \E readable \in BOOLEAN, keys \in IprojVariants, tty \in BOOLEAN :
          IF readable
          THEN /\ iproj_json' = [k \in keys |-> IprojValue(k)]
               /\ color' = tty
               /\ ibmi_env_cmds' =
                     IF "setIBMiEnvCmd" \in keys
                     THEN join("\\n", IprojValue("setIBMiEnvCmd"))
                     ELSE <<>>
               /\ pc' = "iproj"
               /\ err' = err
          ELSE /\ Raise("read_iproj_json")
               /\ UNCHANGED <<iproj_json, color, ibmi_env_cmds>>
    /\ UNCHANGED <<src_dir, fs_rules, fs_ibmi, logs, evfevent, engine_out,
                   tmp_exists, var_file, build_vars_path, rules_mks, subdirs,
                   dir_var_map, idx, make_invoked, make_status, normalized>>

----------------------------------------------------------------------------
(* BuildEnv._create_build_vars: Config Resolver *)

RECURSIVE SortFrom(_, _)
SortFrom(seq, depth) ==
    IF \A i \in DOMAIN seq : Depth(seq[i]) < depth THEN <<>>
    ELSE SelectSeq(seq, LAMBDA path : Depth(path) = depth) \o SortFrom(seq, depth + 1)

\* Line 76: list.sort(key=len(parts)), a stable sort.
sort_by_parts(seq) == SortFrom(seq, 0)

\* Lines 73-78: rglob yields the Rules.mk files in the file system's order;
\* the root's entry is seeded from the project descriptor.
Discover ==
    /\ pc = "iproj"
    /\ \E order \in Perms(Units) :
          /\ rules_mks' = order
          /\ subdirs' = sort_by_parts(order)
    /\ IF {"objlib", "tgtCcsid"} \subseteq DOMAIN iproj_json
       THEN /\ dir_var_map' =
                  [d \in {Root} |-> <<iproj_json["objlib"], iproj_json["tgtCcsid"]>>]
            /\ idx' = 1
            /\ pc' = "resolve"
            /\ err' = err
       ELSE /\ Raise("KeyError_iproj_json")
            /\ UNCHANGED <<dir_var_map, idx>>
    /\ UNCHANGED <<src_dir, fs_rules, fs_ibmi, logs, evfevent, engine_out,
                   tmp_exists, var_file, build_vars_path, iproj_json,
                   ibmi_env_cmds, color, make_invoked, make_status, normalized>>

\* Line 83: the entry handed to read_ibmi_json as the inherited value.
ParentVarsFromRoot(path) == dir_var_map[Root]

ParentVars(path) == dir_var_map[Parent(path)]

\* Lines 80-85: one call of map_ibmi_json_var.
MapIbmiJsonVar ==
    /\ pc = "resolve"
    /\ idx <= Len(subdirs)
    /\ LET path == subdirs[idx] IN
          IF path = Root
          THEN /\ idx' = idx + 1
               /\ UNCHANGED <<dir_var_map, pc, err>>
          ELSE IF Parent(path) \notin DOMAIN dir_var_map
          THEN /\ Raise("KeyError_dir_var_map")
               /\ UNCHANGED <<dir_var_map, idx>>
          ELSE IF fs_ibmi[path].kind = "malformed"
          THEN /\ Raise("read_ibmi_json")
               /\ UNCHANGED <<dir_var_map, idx>>
          ELSE /\ dir_var_map' =
                     [d \in DOMAIN dir_var_map \cup {path} |->
                        IF d = path
                        THEN read_ibmi_json(fs_ibmi[path], ParentVars(path))
                        ELSE dir_var_map[d]]
               /\ idx' = idx + 1
               /\ UNCHANGED <<pc, err>>
    /\ UNCHANGED <<src_dir, fs_rules, fs_ibmi, logs, evfevent, engine_out,
                   tmp_exists, var_file, build_vars_path, iproj_json,
                   ibmi_env_cmds, color, rules_mks, subdirs, make_invoked,
                   make_status, normalized>>

----------------------------------------------------------------------------
(* BuildEnv._create_build_vars: Variable File Writer and Rule Scanner *)

\* A line of the variable file: "<prefix><body><suffix> := <value>", a comment
\* or a blank line.  body and value are sequences of strings.
Key(prefix, body, suffix) == [prefix |-> prefix, body |-> body, suffix |-> suffix]
Assign(key, value) == [key |-> key, value |-> value]
Comment(text) == Assign(Key("#", <<>>, ""), <<text>>)
Blank == Assign(Key("", <<>>, ""), <<>>)
Global(name, value) == Assign(Key(name, <<>>, ""), value)

\* Lines 88-99
Header ==
    << Comment("This file is generated by makei, DO NOT EDIT."),
       Comment("Modify .ibmi.json to override values"),
       Blank,
       Global("curlib", <<iproj_json["curlib"]>>),
       Global("preUsrlibl", <<iproj_json["preUsrlibl"]>>),
       Global("postUsrlibl", <<iproj_json["postUsrlibl"]>>),
       Global("INCDIR", <<iproj_json["includePath"]>>),
       Global("IBMiEnvCmd", ibmi_env_cmds),
       Global("COLOR_TTY", <<IF color THEN "true" ELSE "false">>),
       Blank >>

\* Lines 87-99: the file is opened for writing (truncated) and the header is
\* written; formatting the header reads curlib and the other descriptor keys.
WriteHeader ==
    /\ pc = "resolve"
    /\ idx > Len(subdirs)
    /\ IF RequiredKeys \subseteq DOMAIN iproj_json
       THEN /\ var_file' = Header
            /\ pc' = "write_dirs"
            /\ err' = err
       ELSE /\ var_file' = <<>>
            /\ Raise("KeyError_iproj_json")
    /\ UNCHANGED <<src_dir, fs_rules, fs_ibmi, logs, evfevent, engine_out,
                   tmp_exists, build_vars_path, iproj_json, ibmi_env_cmds,
                   color, rules_mks, subdirs, dir_var_map, idx, make_invoked,
                   make_status, normalized>>

\* Line 101: the directories the writer iterates over.
AllMappedDirs ==
    sort_by_parts(CHOOSE f \in Perms(DOMAIN dir_var_map) : TRUE)

WrittenDirs == subdirs

\* Lines 102-105
DirVarLines(subdir) ==
    << Assign(Key("TGTCCSID_", Absolute(subdir), ""), <<dir_var_map[subdir][2]>>),
       Assign(Key("OBJPATH_", Absolute(subdir), ""),
              objlib_to_path(dir_var_map[subdir][1])) >>

RECURSIVE AllDirVarLines(_)
AllDirVarLines(dirs) ==
    IF dirs = <<>> THEN <<>>
    ELSE DirVarLines(Head(dirs)) \o AllDirVarLines(Tail(dirs))

\* Lines 101-105
WriteDirVars ==
    /\ pc = "write_dirs"
    /\ var_file' = var_file \o AllDirVarLines(WrittenDirs)
    /\ idx' = 1
    /\ pc' = "scan"
    /\ UNCHANGED <<err, src_dir, fs_rules, fs_ibmi, logs, evfevent, engine_out,
                   tmp_exists, build_vars_path, iproj_json, ibmi_env_cmds,
                   color, rules_mks, subdirs, dir_var_map, make_invoked,
                   make_status, normalized>>

\* Line 109: readlines() keeps each line's newline.
readlines(lines) == [i \in DOMAIN lines |-> lines[i] \o <<"\n">>]

\* Lines 112-113, on the line after rstrip()
IsTargetLineNoAssignTest(line) ==
    /\ line # <<>>
    /\ ~ startswith(line, {"#"})
    /\ ~ startswith(line, {" ", "\t"})

IsTargetLine(line) ==
    /\ line # <<>>
    /\ ~ startswith(line, {"#"})
    /\ ~ contains(line, "=")
    /\ ~ startswith(line, {" ", "\t"})

\* Lines 114-115
TargetLine(line, dir) == Assign(Key("", split0(line, ":"), "_d"), Absolute(dir))

\* Lines 110-115, with the lines already written to the file
RECURSIVE ScanLinesOnce(_, _, _)
ScanLinesOnce(written, lines, dir) ==
    IF lines = <<>> THEN written
    ELSE LET line == rstrip(Head(lines))
             seen == \E i \in DOMAIN written :
                        written[i].key = Key("", split0(line, ":"), "_d")
         IN  ScanLinesOnce(
                 IF IsTargetLine(line) /\ ~ seen
                 THEN Append(written, TargetLine(line, dir)) ELSE written,
                 Tail(lines), dir)

RECURSIVE ScanLines(_, _, _)
ScanLines(written, lines, dir) ==
    IF lines = <<>> THEN written
    ELSE LET line == rstrip(Head(lines)) IN
         ScanLines(
             IF IsTargetLine(line)
             THEN Append(written, TargetLine(line, dir)) ELSE written,
             Tail(lines), dir)

\* Lines 107-115: one Rules.mk is opened, read and scanned.
ScanRulesMk ==
    /\ pc = "scan"
    /\ idx <= Len(rules_mks)
    /\ LET dir == rules_mks[idx] IN
          IF fs_rules[dir].kind = "unreadable"
          THEN /\ Raise("rules_mk_open")
               /\ UNCHANGED <<var_file, idx>>
          ELSE /\ var_file' = ScanLines(var_file, readlines(fs_rules[dir].lines), dir)
               /\ idx' = idx + 1
               /\ UNCHANGED <<pc, err>>
    /\ UNCHANGED <<src_dir, fs_rules, fs_ibmi, logs, evfevent, engine_out,
                   tmp_exists, build_vars_path, iproj_json, ibmi_env_cmds,
                   color, rules_mks, subdirs, dir_var_map, make_invoked,
                   make_status, normalized>>

Constructed == pc = "scan" /\ idx > Len(rules_mks)

----------------------------------------------------------------------------
(* BuildEnv.make, BuildEnv._post_make, BuildEnv.__del__ *)

\* Lines 117-124: stale logs are removed and the external make is run on the
\* command of generate_make_cmd (a string built from the session's paths,
\* options and targets); run_command returns when the process has ended,
\* or raises.
Make ==
    /\ Constructed
    /\ logs' = logs \ LogFiles
    /\ make_invoked' = TRUE
    /\ \E status \in {"zero", "nonzero", "raise"} :
          /\ make_status' = status
          /\ IF status = "raise"
             THEN /\ Raise("run_command")
                  /\ evfevent' = evfevent
             ELSE /\ pc' = "post_make"
                  /\ err' = err
                  /\ evfevent' = engine_out
    /\ UNCHANGED <<src_dir, fs_rules, fs_ibmi, engine_out, tmp_exists, var_file,
                   build_vars_path, iproj_json, ibmi_env_cmds, color, rules_mks,
                   subdirs, dir_var_map, idx, normalized>>

\* Line 133: f'{Path.cwd()}/'
SourceRootPrefix == PathStr(src_dir) \o <<"/">>

\* Lines 127-135
PostMake ==
    /\ pc = "post_make"
    /\ evfevent' = [f \in DOMAIN evfevent |-> str_replace(evfevent[f], SourceRootPrefix)]
    /\ normalized' = TRUE
    /\ pc' = "made"
    /\ UNCHANGED <<err, src_dir, fs_rules, fs_ibmi, logs, engine_out, tmp_exists,
                   var_file, build_vars_path, iproj_json, ibmi_env_cmds, color,
                   rules_mks, subdirs, dir_var_map, idx, make_invoked, make_status>>

\* The session is over: __init__ raised, or the constructed object is released
\* before or after make().
SessionOver == pc \in {"raised", "made"} \/ Constructed

\* Lines 58-59: unlink of self.build_vars_path; an exception raised in __del__
\* (no such attribute, no such file) is ignored by the interpreter.
DelAfterSuccessOnly ==
    /\ SessionOver
    /\ pc' = "ended"
    /\ IF build_vars_path = "set" /\ tmp_exists /\ err = "none"
       THEN tmp_exists' = FALSE /\ var_file' = <<>>
       ELSE UNCHANGED <<tmp_exists, var_file>>
    /\ UNCHANGED <<err, src_dir, fs_rules, fs_ibmi, logs, evfevent, engine_out,
                   build_vars_path, iproj_json, ibmi_env_cmds, color, rules_mks,
                   subdirs, dir_var_map, idx, make_invoked, make_status, normalized>>

Del ==
    /\ SessionOver
    /\ pc' = "ended"
    /\ IF build_vars_path = "set" /\ tmp_exists
       THEN tmp_exists' = FALSE /\ var_file' = <<>>
       ELSE UNCHANGED <<tmp_exists, var_file>>
    /\ UNCHANGED <<err, src_dir, fs_rules, fs_ibmi, logs, evfevent, engine_out,
                   build_vars_path, iproj_json, ibmi_env_cmds, color, rules_mks,
                   subdirs, dir_var_map, idx, make_invoked, make_status, normalized>>

----------------------------------------------------------------------------

Next ==
    \/ BuildEnv_init
    \/ ReadIprojJson
    \/ Discover
    \/ MapIbmiJsonVar
    \/ WriteHeader
    \/ WriteDirVars
    \/ ScanRulesMk
    \/ Make
    \/ PostMake
    \/ Del

Spec == Init /\ [][Next]_vars

SpecScan == InitScan /\ [][Next]_vars

SpecNorm == InitNorm /\ [][Next]_vars

----------------------------------------------------------------------------
(* Properties *)

\* The override cascade has run over every discovered directory.
ResolutionDone ==
    \/ pc = "resolve" /\ idx > Len(subdirs)
    \/ pc \in {"write_dirs", "scan", "post_make", "made"}

\* The writer has emitted the directory section.
DirVarsWritten == pc \in {"scan", "post_make", "made"}

\* Every Rules.mk has been scanned and the variable file is complete.
ScanDone == Constructed \/ pc \in {"post_make", "made"}

RootVars == <<IprojValue("objlib"), IprojValue("tgtCcsid")>>

\* The nearest ancestor of a directory that has an entry: a build unit or
\* the root.
RECURSIVE NearestAncestor(_)
NearestAncestor(d) ==
    IF Parent(d) = Root \/ Parent(d) \in Units THEN Parent(d)
    ELSE NearestAncestor(Parent(d))

\* The configuration of a directory by the resolution order of the data
\* model: local value if present, else the nearest ancestor's.
RECURSIVE Expected(_)
Expected(d) ==
    IF d = Root THEN RootVars
    ELSE LET up == Expected(NearestAncestor(d)) IN
         << IF fs_ibmi[d].objlib = NoValue THEN up[1] ELSE fs_ibmi[d].objlib,
            IF fs_ibmi[d].tgtCcsid = NoValue THEN up[2] ELSE fs_ibmi[d].tgtCcsid >>

\* C1: once the session has ended (the object was finalised after make()
\* returned, after the engine failed, or after __init__ raised), the
\* temporary variable file does not exist.
C1_VariableFileCleanup == pc = "ended" => ~ tmp_exists

\* A session that ended on a configuration error raised after mkstemp.
C1_Witness ==
    /\ pc = "ended"
    /\ err = "KeyError_iproj_json"
    /\ build_vars_path = "set"
    /\ ~ make_invoked
    /\ ~ tmp_exists

\* C2: every non-root directory with an entry takes each field its override
\* file does not set from its parent's entry (so without an override file
\* its entry is its parent's), and the example tree resolves to
\* root (LIBA,37), a (LIBA,37), a/b (LIBA,1208).
C2_CascadeCorrectness ==
    /\ \A d \in DOMAIN dir_var_map \ {Root} :
          /\ Parent(d) \in DOMAIN dir_var_map
          /\ fs_ibmi[d].objlib = NoValue =>
                dir_var_map[d][1] = dir_var_map[Parent(d)][1]
          /\ fs_ibmi[d].tgtCcsid = NoValue =>
                dir_var_map[d][2] = dir_var_map[Parent(d)][2]
    /\ ( /\ ResolutionDone
         /\ Units = {<<"a">>, <<"a", "b">>}
         /\ fs_ibmi[<<"a">>] = Absent
         /\ fs_ibmi[<<"a", "b">>].tgtCcsid = "1208"
         /\ fs_ibmi[<<"a", "b">>].objlib = NoValue )
       => dir_var_map = [d \in {Root, <<"a">>, <<"a", "b">>} |->
                            IF d = <<"a", "b">> THEN <<"LIBA", "1208">>
                            ELSE <<"LIBA", "37">>]

\* The parent overrides objlib, the child only tgtCcsid: the child's objlib
\* is the parent's, not the project's.
C2_Witness ==
    /\ ResolutionDone
    /\ fs_ibmi[<<"a">>].objlib = "LIBB"
    /\ fs_ibmi[<<"a", "b">>].tgtCcsid = "1208"
    /\ <<"a", "b">> \in DOMAIN dir_var_map
    /\ dir_var_map[<<"a", "b">>] = <<"LIBB", "1208">>

\* C3: resolution never fails for want of an entry, and when it is over
\* every build-unit directory has its entry, resolved against its nearest
\* ancestor that has one.
C3_EveryUnitResolved ==
    /\ err # "KeyError_dir_var_map"
    /\ ResolutionDone =>
          \A d \in Units :
             d \in DOMAIN dir_var_map /\ dir_var_map[d] = Expected(d)

\* C4: the parent's entry exists whenever map_ibmi_json_var is about to read
\* it, and the final map is the same for every depth-respecting order.
C4_DepthOrdering ==
    /\ ( pc = "resolve" /\ idx <= Len(subdirs) /\ subdirs[idx] # Root )
       => Parent(subdirs[idx]) \in DOMAIN dir_var_map
    /\ ResolutionDone =>
          dir_var_map = [d \in Units \cup {Root} |-> Expected(d)]

----------------------------------------------------------------------------

\* The lines of the variable file after the header and the directory section.
OwnershipSection ==
    SubSeq(var_file, Len(Header) + 2 * Len(subdirs) + 1, Len(var_file))

\* A line with its trailing whitespace removed.
Trimmed(line) ==
    LET last == CHOOSE n \in 0..Len(line) :
                   /\ n = 0 \/ line[n] \notin Whitespace
                   /\ \A m \in (n + 1)..Len(line) : line[m] \in Whitespace
    IN  SubSeq(line, 1, last)

\* A target declaration line, by the rule scanner's definition.
Declares(line) ==
    LET t == Trimmed(line) IN
    /\ Len(t) > 0
    /\ t[1] \notin {"#", " ", "\t"}
    /\ \A i \in DOMAIN t : t[i] # "="

\* The text before the first ':' of a line.
Identifier(line) ==
    LET t == Trimmed(line)
        colon == CHOOSE n \in 1..(Len(t) + 1) :
                    /\ n = Len(t) + 1 \/ t[n] = ":"
                    /\ \A m \in 1..(n - 1) : t[m] # ":"
    IN  SubSeq(t, 1, colon - 1)

\* The declarations of the scanned files, in scanning order.
RECURSIVE Declarations(_)
Declarations(dirs) ==
    IF dirs = <<>> THEN <<>>
    ELSE LET lines == fs_rules[Head(dirs)].lines IN
         SelectSeq([i \in DOMAIN lines |-> [line |-> lines[i], dir |-> Head(dirs)]],
                   LAMBDA decl : Declares(decl.line))
         \o Declarations(Tail(dirs))

OwnerKey(id) == [prefix |-> "", body |-> id, suffix |-> "_d"]

\* C5: the ownership lines of the variable file are, in order, one line per
\* line of the Rules.mk files that after trimming trailing whitespace is
\* non-empty, starts with neither '#' nor a space or tab and holds no '=';
\* its identifier is the text before the first ':' and its owner the absolute
\* path of the file's directory.  Of the four example lines only FOO is
\* extracted.
C5_RuleScanning ==
    ScanDone =>
      /\ LET decls == Declarations(rules_mks) IN
            OwnershipSection =
               [i \in DOMAIN decls |->
                  [key |-> OwnerKey(Identifier(decls[i].line)),
                   value |-> src_dir \o decls[i].dir]]
      /\ \A d \in Dirs :
            (Units = {d} /\ fs_rules[d] = ExampleRules) =>
               OwnershipSection =
                  << [key |-> OwnerKey(<<"F", "O", "O">>), value |-> src_dir \o d] >>

\* A declaration with trailing whitespace after the ':' has been extracted.
C5_Witness ==
    /\ ScanDone
    /\ fs_rules[<<"a">>].lines = << <<"F", ":", " ">> >>
    /\ OwnershipSection =
          << [key |-> OwnerKey(<<"F">>), value |-> <<"r", "a">>] >>

\* C6: normalising a normalised event file changes nothing.
C6_IdempotentNormalization ==
    normalized =>
       \A f \in DOMAIN evfevent :
          str_replace(evfevent[f], SourceRootPrefix) = evfevent[f]

\* C7: a session in which the external make was invoked does not end without
\* the event files having been normalised.
C7_NormalizerAlwaysRuns ==
    (make_invoked /\ pc \in {"raised", "made", "ended"}) => normalized

\* C8: when construction has failed on a configuration or discovery error,
\* nothing has been written to the variable file and no make was launched.
C8_FailFast ==
    ( /\ pc = "raised"
      /\ err \in {"read_iproj_json", "KeyError_iproj_json", "read_ibmi_json",
                  "rules_mk_open"} )
    => (var_file = <<>> /\ ~ make_invoked)

----------------------------------------------------------------------------

\* The positions of the variable file that assign the owner of id.
OwnerLines(id) == {j \in DOMAIN var_file : var_file[j].key = OwnerKey(id)}

\* The declarations of id, as positions of the scanning order.
DeclsOf(id) ==
    LET decls == Declarations(rules_mks) IN
    {i \in DOMAIN decls : Identifier(decls[i].line) = id}

AllIds ==
    LET decls == Declarations(rules_mks) IN
    {Identifier(decls[i].line) : i \in DOMAIN decls}

Max(S) == CHOOSE n \in S : \A m \in S : m <= n

\* C9 as stated: every declared identifier has exactly one assignment line,
\* naming the directory processed last.
C9_OneLinePerIdentifier ==
    ScanDone =>
       \A id \in AllIds :
          /\ Cardinality(OwnerLines(id)) = 1
          /\ \A j \in OwnerLines(id) :
                var_file[j].value =
                   src_dir \o Declarations(rules_mks)[Max(DeclsOf(id))].dir

\* C9 amended: every declared identifier has one assignment line per
\* declaration, and the last of them names the directory processed last.
C9_OneLinePerDeclaration ==
    ScanDone =>
       \A id \in AllIds :
          /\ Cardinality(OwnerLines(id)) = Cardinality(DeclsOf(id))
          /\ var_file[Max(OwnerLines(id))].value =
                src_dir \o Declarations(rules_mks)[Max(DeclsOf(id))].dir

\* An identifier declared in two directories: four lines for BAR, the last
\* naming the directory scanned last.
C9_Witness ==
    /\ ScanDone
    /\ rules_mks = << <<"a">>, <<"b">> >>
    /\ fs_rules[<<"a">>] = TwiceRules
    /\ fs_rules[<<"b">>] = TwiceRules
    /\ Cardinality(OwnerLines(<<"B", "A", "R">>)) = 4
    /\ var_file[Len(var_file)].value = <<"r", "b">>

\* The positions of the variable file that assign name_<abs path of d>.
DirLines(name, d) ==
    {j \in DOMAIN var_file : var_file[j].key = Key(name, src_dir \o d, "")}

HasDirVars(d) ==
    /\ Cardinality(DirLines("TGTCCSID_", d)) = 1
    /\ Cardinality(DirLines("OBJPATH_", d)) = 1
    /\ \A j \in DirLines("TGTCCSID_", d) : var_file[j].value = <<dir_var_map[d][2]>>
    /\ \A j \in DirLines("OBJPATH_", d) :
          var_file[j].value = objlib_to_path(dir_var_map[d][1])

\* C10 as stated: every entry of the directory map, the root's included, has
\* its two lines in the variable file.
C10_TwoLinesPerMapEntry ==
    DirVarsWritten => \A d \in DOMAIN dir_var_map : HasDirVars(d)

\* C10 amended: every directory holding a Rules.mk has its two lines, with
\* its resolved tgtCcsid and the path of its resolved objlib, and no other
\* directory has any: the root has them only when it holds a Rules.mk.
C10_TwoLinesPerBuildUnit ==
    DirVarsWritten =>
       \A d \in Dirs :
          IF d \in Units
          THEN d \in DOMAIN dir_var_map /\ HasDirVars(d)
          ELSE DirLines("TGTCCSID_", d) = {} /\ DirLines("OBJPATH_", d) = {}

\* A tree whose root holds no Rules.mk: the root has an entry and no lines.
C10_Witness ==
    /\ DirVarsWritten
    /\ Units = {<<"a">>, <<"a", "b">>}
    /\ Root \in DOMAIN dir_var_map
    /\ DirLines("TGTCCSID_", Root) = {}
    /\ HasDirVars(<<"a", "b">>)
    /\ fs_ibmi[<<"a", "b">>].objlib = "LIBB"

====
